---- MODULE Spec2Model ----
(***************************************************************************)
(* Model of the sudokuSAT solvers: the SAT strategy (literal map, clause   *)
(* encoder, oracle session, decoder) of src/solver/sat.rs and the          *)
(* chronological backtracking strategy of src/solver/backtracking.rs.      *)
(***************************************************************************)
EXTENDS Integers, Sequences, FiniteSets, TLC

\* Side of the board: `for row in 0..9`, `[[usize; 9]; 9]`.
N == 9
\* Side of a box: `for box_row in 0..3`, `(row / 3) * 3`.
B == 3

Idx == 0 .. (N - 1)
Digits == 1 .. N
Cells == Idx \X Idx

(***************************************************************************)
(* rustsat types: a literal is a variable with a polarity, a clause is a   *)
(* collection of literals, an instance is a variable counter and the       *)
(* clauses added so far.                                                   *)
(***************************************************************************)
Lit(v, n) == [var |-> v, neg |-> n]

\* `!lit`
Not(l) == [l EXCEPT !.neg = ~l.neg]

\* SatInstance::new()
SatInstance_new == [n_vars |-> 0, clauses |-> <<>>]

\* new_lit that hands out the same variable again.
new_lit_stuck(inst) == [lit |-> Lit(inst.n_vars, FALSE), inst |-> inst]

\* instance.new_lit(): the next free variable, positive polarity.
new_lit(inst) ==
    [lit |-> Lit(inst.n_vars, FALSE), inst |-> [inst EXCEPT !.n_vars = @ + 1]]

\* instance.add_clause(clause)
add_clause(inst, cl) == [inst EXCEPT !.clauses = Append(@, cl)]

\* instance.add_unit(lit)
add_unit(inst, l) == add_clause(inst, {l})

(***************************************************************************)
(* SudokuSat::new: literals starts as 9 x 9 empty vectors; the loop nest   *)
(* row, col, digit pushes one fresh literal per iteration, so that         *)
(* literals[row][col][digit - 1] (here lit_at) is the digit-th push of     *)
(* the cell.  The loops are nested as in the code; the single-armed CASE   *)
(* of the outer loops only makes TLC evaluate the value built so far       *)
(* before it goes on (n_vars is a counter, never negative).                *)
(***************************************************************************)
RECURSIVE new_digit_loop(_, _, _, _)
new_digit_loop(sudoku, row, col, digit) ==
    IF digit > N THEN sudoku
    ELSE LET nl == new_lit(sudoku.instance)
         IN  new_digit_loop(
                 [instance |-> nl.inst,
                  literals |-> [sudoku.literals EXCEPT ![row][col] = Append(@, nl.lit)]],
                 row, col, digit + 1)

RECURSIVE new_col_loop(_, _, _)
new_col_loop(sudoku, row, col) ==
    IF col = N THEN sudoku
    ELSE LET s == new_digit_loop(sudoku, row, col, 1)
         IN  CASE s.instance.n_vars >= 0 -> new_col_loop(s, row, col + 1)

RECURSIVE new_row_loop(_, _)
new_row_loop(sudoku, row) ==
    IF row = N THEN sudoku
    ELSE LET s == new_col_loop(sudoku, row, 0)
         IN  CASE s.instance.n_vars >= 0 -> new_row_loop(s, row + 1)

SudokuSat_new ==
    new_row_loop([instance |-> SatInstance_new,
                  literals |-> [row \in Idx |-> [col \in Idx |-> <<>>]]], 0)

\* literals[row][col][digit - 1]
lit_at(literals, row, col, digit) == literals[row][col][digit]

(***************************************************************************)
(* Loop helpers: the sequences the nested `for` loops run through.         *)
(***************************************************************************)
RECURSIVE Concat(_)
Concat(ss) == IF ss = <<>> THEN <<>> ELSE Head(ss) \o Concat(Tail(ss))

\* `for i in 0..n { for j in (i + 1)..n { ... } }`: the pairs <<i, j>> in loop order.
\* An inner loop that starts at its outer index, `i..n`: a cell paired with itself.
inner_start_same(i) == i

\* Where the inner loop starts: `(col1 + 1)..9`, `(row1 + 1)..9`, `(i + 1)..cells.len()`.
inner_start(i) == i + 1

RECURSIVE pair_loop_from(_, _, _)
pair_loop_from(n, i, j) ==
    IF i >= n THEN <<>>
    ELSE IF j >= n THEN pair_loop_from(n, i + 1, inner_start(i + 1))
    ELSE <<(<<i, j>>)>> \o pair_loop_from(n, i, j + 1)

pair_loop(n) == pair_loop_from(n, 0, inner_start(0))

\* The cells of box (box_row, box_col) in scan order: cells.push((row, col)).
box_cells(box_row, box_col) ==
    [k \in 1 .. (B * B) |-> <<box_row * B + ((k - 1) \div B), box_col * B + ((k - 1) % B)>>]

(***************************************************************************)
(* add_minimal_sudoku_constraints: the four clause groups, in the order    *)
(* the code adds them.                                                     *)
(***************************************************************************)
\* Each cell must contain at least one digit.
definedness_clauses(literals) ==
    Concat([r1 \in 1 .. N |-> [c1 \in 1 .. N |->
        {lit_at(literals, r1 - 1, c1 - 1, d) : d \in Digits}]])

\* Each number appears at most once in each row.
row_clauses(literals) ==
    LET ps == pair_loop(N)
    IN  Concat([r1 \in 1 .. N |-> Concat([digit \in 1 .. N |->
            [p \in 1 .. Len(ps) |->
                {Not(lit_at(literals, r1 - 1, ps[p][1], digit)),
                 Not(lit_at(literals, r1 - 1, ps[p][2], digit))}]])])

\* The row loop nest pasted for the columns without swapping the indices.
col_clauses_pasted(literals) == row_clauses(literals)

\* Each number appears at most once in each column.
col_clauses(literals) ==
    LET ps == pair_loop(N)
    IN  Concat([c1 \in 1 .. N |-> Concat([digit \in 1 .. N |->
            [p \in 1 .. Len(ps) |->
                {Not(lit_at(literals, ps[p][1], c1 - 1, digit)),
                 Not(lit_at(literals, ps[p][2], c1 - 1, digit))}]])])

\* The box group left out.
box_clauses_none(literals) == <<>>

\* Each number appears at most once in each 3x3 sub-grid.
box_clauses(literals) ==
    Concat([digit \in 1 .. N |-> Concat([bx \in 1 .. (B * B) |->
        LET cells == box_cells((bx - 1) \div B, (bx - 1) % B)
            ps == pair_loop(Len(cells))
        IN  [p \in 1 .. Len(ps) |->
                {Not(lit_at(literals, cells[ps[p][1] + 1][1], cells[ps[p][1] + 1][2], digit)),
                 Not(lit_at(literals, cells[ps[p][2] + 1][1], cells[ps[p][2] + 1][2], digit))}]])])

\* instance.add_clause(clause) for each clause of a loop nest, in loop order.
add_clauses(inst, cls) == [inst EXCEPT !.clauses = @ \o cls]

add_minimal_sudoku_constraints(sudoku) ==
    LET i1 == add_clauses(sudoku.instance, definedness_clauses(sudoku.literals))
        i2 == add_clauses(i1, row_clauses(sudoku.literals))
        i3 == add_clauses(i2, col_clauses(sudoku.literals))
        i4 == add_clauses(i3, box_clauses(sudoku.literals))
    IN  [sudoku EXCEPT !.instance = i4]

(***************************************************************************)
(* add_puzzle_clues / set_cell: one unit clause per nonzero entry.         *)
(***************************************************************************)
\* set_cell with the two indices exchanged.
set_cell_transposed(sudoku, row, col, digit) ==
    [sudoku EXCEPT !.instance = add_unit(@, lit_at(sudoku.literals, col, row, digit))]

set_cell(sudoku, row, col, digit) ==
    [sudoku EXCEPT !.instance = add_unit(@, lit_at(sudoku.literals, row, col, digit))]

RECURSIVE clue_col_loop(_, _, _, _)
clue_col_loop(sudoku, clue, row, col) ==
    IF col = N THEN sudoku
    ELSE LET digit == clue[row][col]
         IN  IF digit # 0
             THEN clue_col_loop(set_cell(sudoku, row, col, digit), clue, row, col + 1)
             ELSE clue_col_loop(sudoku, clue, row, col + 1)

RECURSIVE clue_row_loop(_, _, _)
clue_row_loop(sudoku, clue, row) ==
    IF row = N THEN sudoku
    ELSE LET s == clue_col_loop(sudoku, clue, row, 0)
         IN  CASE s.instance.n_vars >= 0 -> clue_row_loop(s, clue, row + 1)

add_puzzle_clues(sudoku, clue) == clue_row_loop(sudoku, clue, 0)

(***************************************************************************)
(* extract_grid: per cell, the first digit whose literal's variable is     *)
(* True in the assignment; a cell with no such digit keeps its initial 0.  *)
(***************************************************************************)
RECURSIVE first_true_digit(_, _, _, _, _)
first_true_digit(literals, sol, row, col, digit) ==
    IF digit > N THEN 0
    ELSE IF sol[lit_at(literals, row, col, digit).var] = "True" THEN digit
    ELSE first_true_digit(literals, sol, row, col, digit + 1)

\* The decoder writing the 0-based index of the digit.
extract_grid_index(sudoku, sol) ==
    [row \in Idx |-> [col \in Idx |->
        LET d == first_true_digit(sudoku.literals, sol, row, col, 1)
        IN  IF d = 0 THEN 0 ELSE d - 1]]

extract_grid(sudoku, sol) ==
    [row \in Idx |-> [col \in Idx |-> first_true_digit(sudoku.literals, sol, row, col, 1)]]

(***************************************************************************)
(* The SAT oracle (CaDiCaL behind rustsat's Solve trait).  It is a black   *)
(* box to the program: add_cnf loads the clauses, solve answers Sat        *)
(* exactly when some assignment satisfies every loaded clause, and         *)
(* full_solution is then one such assignment, total over the variables.    *)
(* oracle_models enumerates all of them by unit propagation and splitting, *)
(* so the model may return any one of them.                                *)
(***************************************************************************)
\* A clause as its positive and its negated variables.
clause_pn(cl) ==
    [pos |-> {l.var : l \in {x \in cl : ~x.neg}},
     neg |-> {l.var : l \in {x \in cl : x.neg}}]

\* The clauses left open once the variables in t are true and those in f false.
reduce(cls, t, f) ==
    {[pos |-> c.pos \ f, neg |-> c.neg \ t] :
        c \in {x \in cls : x.pos \cap t = {} /\ x.neg \cap f = {}}}

RECURSIVE propagate(_, _, _)
propagate(cls, T, F) ==
    IF [pos |-> {}, neg |-> {}] \in cls THEN [conflict |-> TRUE]
    ELSE LET ut == UNION {c.pos : c \in {x \in cls : x.neg = {} /\ Cardinality(x.pos) = 1}}
             uf == UNION {c.neg : c \in {x \in cls : x.pos = {} /\ Cardinality(x.neg) = 1}}
         IN  IF ut = {} /\ uf = {}
             THEN [conflict |-> FALSE, cls |-> cls, T |-> T, F |-> F]
             ELSE IF ut \cap uf # {} THEN [conflict |-> TRUE]
             ELSE propagate(reduce(cls, ut, uf), T \cup ut, F \cup uf)

RECURSIVE models_from(_, _, _, _)
models_from(cls, T, F, vars) ==
    LET p == propagate(cls, T, F)
    IN  IF p.conflict THEN {}
        ELSE IF p.cls = {}
        THEN {p.T \cup S : S \in SUBSET (vars \ (p.T \cup p.F))}
        ELSE LET v == CHOOSE x \in UNION {c.pos \cup c.neg : c \in p.cls} : TRUE
             IN  models_from(reduce(p.cls, {v}, {}), p.T \cup {v}, p.F, vars)
                 \cup models_from(reduce(p.cls, {}, {v}), p.T, p.F \cup {v}, vars)

\* The sets of true variables of the satisfying assignments of a CNF.
oracle_models(cnf, n_vars) ==
    LET cls == {clause_pn(cnf[i]) : i \in 1 .. Len(cnf)}
        open == {c \in cls : c.pos \cap c.neg = {}}
    IN  models_from(open, {}, {}, 0 .. (n_vars - 1))

\* An Assignment: a TernaryVal per variable.
assignment_of(trues, n_vars) ==
    [v \in 0 .. (n_vars - 1) |-> IF v \in trues THEN "True" ELSE "False"]

(***************************************************************************)
(* Backtracking strategy: find_empty and is_valid.                         *)
(***************************************************************************)
\* The first cell holding 0 in row-major order, as <<TRUE, r, c>>, or <<FALSE, 0, 0>>.
find_empty(grid) ==
    LET empties == {k \in 0 .. (N * N - 1) : grid[k \div N][k % N] = 0}
    IN  IF empties = {} THEN <<FALSE, 0, 0>>
        ELSE LET k == CHOOSE x \in empties : \A y \in empties : x <= y
             IN  <<TRUE, k \div N, k % N>>

\* is_valid without its column loop.
is_valid_no_col(grid, row, col, d) ==
    LET br == (row \div B) * B
        bc == (col \div B) * B
    IN  /\ \A c \in Idx : grid[row][c] # d
        /\ \A r \in br .. (br + B - 1) : \A c \in bc .. (bc + B - 1) : grid[r][c] # d

\* Check if placing digit d at (row, col) is valid.
is_valid(grid, row, col, d) ==
    LET br == (row \div B) * B
        bc == (col \div B) * B
    IN  /\ \A c \in Idx : grid[row][c] # d
        /\ \A r \in Idx : grid[r][col] # d
        /\ \A r \in br .. (br + B - 1) : \A c \in bc .. (bc + B - 1) : grid[r][c] # d

\* The digits tried in descending order, `(1..=9).rev()`.
candidate_rev(k) == N + 1 - k

\* `for d in 1..=9`: the digit tried in the k-th iteration.
candidate(k) == k

(***************************************************************************)
(* Option<[[usize; 9]; 9]>                                                 *)
(***************************************************************************)
ZeroGrid == [r \in Idx |-> [c \in Idx |-> 0]]
None == [some |-> FALSE, grid |-> ZeroGrid]
Some(g) == [some |-> TRUE, grid |-> g]

(***************************************************************************)
(* Input puzzles.  SolvedDefault is the completion of default_puzzle();    *)
(* the puzzles explored are SolvedDefault with the first NumEditCells      *)
(* cells of EditCells overwritten by a value of EditValues.  The four      *)
(* first cells are a rectangle holding 8 6 / 6 8, so the family holds      *)
(* complete grids, puzzles with one and with two completions, puzzles      *)
(* whose clues clash, and consistent puzzles with no completion.           *)
(***************************************************************************)
NumEditCells == 4
MaxRounds == 1
EncodeCells == 3

GridOf(rows) == [r \in Idx |-> [c \in Idx |-> rows[r + 1][c + 1]]]

SolvedDefault ==
    GridOf(<< <<8, 3, 6, 4, 1, 2, 9, 7, 5>>,
              <<1, 7, 9, 5, 3, 6, 2, 4, 8>>,
              <<5, 2, 4, 7, 8, 9, 1, 3, 6>>,
              <<2, 4, 7, 6, 9, 1, 8, 5, 3>>,
              <<3, 5, 1, 2, 7, 8, 4, 6, 9>>,
              <<6, 9, 8, 3, 4, 5, 7, 1, 2>>,
              <<4, 6, 3, 8, 2, 7, 5, 9, 1>>,
              <<7, 1, 2, 9, 5, 3, 6, 8, 4>>,
              <<9, 8, 5, 1, 6, 4, 3, 2, 7>> >>)

EditCells == << <<0, 0>>, <<0, 2>>, <<5, 0>>, <<5, 2>>, <<3, 3>>, <<7, 7>> >>
EditValues == {0, 6, 8}

RECURSIVE WithEdits(_, _, _)
WithEdits(g, f, k) ==
    IF k = 0 THEN g
    ELSE WithEdits([g EXCEPT ![EditCells[k][1]][EditCells[k][2]] = f[k]], f, k - 1)

Puzzles ==
    {WithEdits(SolvedDefault, f, NumEditCells) : f \in [1 .. NumEditCells -> EditValues]}

\* Sparse puzzles for the encoder: the empty grid with the first EncodeCells cells
\* of SparseCells set to a value of SparseValues.
SparseCells == << <<0, 0>>, <<4, 4>>, <<8, 8>>, <<2, 6>>, <<6, 2>> >>
SparseValues == {0, 1, 5, 9}

RECURSIVE WithClues(_, _, _)
WithClues(g, f, k) ==
    IF k = 0 THEN g
    ELSE WithClues([g EXCEPT ![SparseCells[k][1]][SparseCells[k][2]] = f[k]], f, k - 1)

SparsePuzzles ==
    {WithClues(ZeroGrid, f, EncodeCells) : f \in [1 .. EncodeCells -> SparseValues]}

(***************************************************************************)
(* App (its grid is kept apart, in the variable puzzle).  The message is   *)
(* kept without the milliseconds it quotes, last_solve_time as None or     *)
(* Some: durations are not modelled.                                       *)
(***************************************************************************)
App_default ==
    [cursor |-> <<0, 0>>,
     solver_idx |-> 0,
     focus |-> "Grid",
     message |-> "None",
     show_help |-> TRUE,
     last_solve_time |-> "None"]

(***************************************************************************)
(* State.                                                                  *)
(***************************************************************************)
VARIABLES
    app,      \* the caller's App, its grid apart
    puzzle,   \* App.grid, the caller's grid, lent to solve as `puzzle: &[[usize; 9]; 9]`
    round,    \* how many times the caller's event loop has come round
    kind,     \* the strategy running: "Sat" or "Backtracking"
    pc,       \* position in the caller and in solve
    sudoku,   \* SudokuSat { instance, literals }, `model` in solve
    oracle,   \* the CaDiCaL session: its state, the CNF it was given, its model,
              \* and the calls made on it so far
    fault,    \* the oracle failure that happened, "none" if none
    sol,      \* the Assignment read by full_solution
    grid,     \* backtracking: the mutable copy `grid`
    stack,    \* backtracking: the frames <<row, col, k>> of solve_grid
    ret,      \* backtracking: the value the last solve_grid call returned
    result    \* what solve returned

vars == <<app, puzzle, round, kind, pc, sudoku, oracle, fault, sol, grid, stack, ret, result>>

NoSudoku == [instance |-> SatInstance_new, literals |-> <<>>]
NoOracle == [state |-> "None", cnf |-> <<>>, model |-> {}, calls |-> <<>>]
NoSol == <<>>

Idle(p, n) ==
    /\ app = [App_default EXCEPT !.show_help = FALSE]
    /\ puzzle = p
    /\ round = n
    /\ kind = "None"
    /\ pc = "idle"
    /\ sudoku = NoSudoku
    /\ oracle = NoOracle
    /\ fault = "none"
    /\ sol = NoSol
    /\ grid = ZeroGrid
    /\ stack = <<>>
    /\ ret = FALSE
    /\ result = None

Init == \E p \in Puzzles : Idle(p, 0)

(***************************************************************************)
(* A caller lends its grid to one implementation of SudokuSolver::solve    *)
(* (handle_key does so on 's': solver.solve(&app.grid)).                   *)
(***************************************************************************)
Solve(k) ==
    /\ pc = "idle"
    /\ kind' = k
    /\ pc' = IF k = "Sat" THEN "sat_new" ELSE "bt_copy"
    /\ UNCHANGED <<app, puzzle, round, sudoku, oracle, fault, sol, grid, stack, ret, result>>

(***************************************************************************)
(* SatSudokuSolver::solve, statement by statement.                         *)
(***************************************************************************)
\* let mut model = SudokuSat::new();
SatNew ==
    /\ pc = "sat_new"
    /\ sudoku' = SudokuSat_new
    /\ pc' = "sat_constraints"
    /\ UNCHANGED <<app, puzzle, round, kind, oracle, fault, sol, grid, stack, ret, result>>

\* add_minimal_sudoku_constraints(&mut model);
SatConstraints ==
    /\ pc = "sat_constraints"
    /\ sudoku' = add_minimal_sudoku_constraints(sudoku)
    /\ pc' = "sat_clues"
    /\ UNCHANGED <<app, puzzle, round, kind, oracle, fault, sol, grid, stack, ret, result>>

\* add_puzzle_clues(&mut model, puzzle);
SatClues ==
    /\ pc = "sat_clues"
    /\ sudoku' = add_puzzle_clues(sudoku, puzzle)
    /\ pc' = "sat_cadical"
    /\ UNCHANGED <<app, puzzle, round, kind, oracle, fault, sol, grid, stack, ret, result>>

\* let mut solver = CaDiCaL::default();
SatCadical ==
    /\ pc = "sat_cadical"
    /\ oracle' = [state |-> "Fresh", cnf |-> <<>>, model |-> {}, calls |-> <<"default">>]
    /\ pc' = "sat_add_cnf"
    /\ UNCHANGED <<app, puzzle, round, kind, sudoku, fault, sol, grid, stack, ret, result>>

\* solver.add_cnf(model.instance.clone().into_cnf().0).unwrap();
SatAddCnf ==
    /\ pc = "sat_add_cnf"
    /\ oracle' = [oracle EXCEPT !.state = "CnfLoaded",
                                !.cnf = sudoku.instance.clauses,
                                !.calls = Append(@, "add_cnf")]
    /\ pc' = "sat_solve"
    /\ UNCHANGED <<app, puzzle, round, kind, sudoku, fault, sol, grid, stack, ret, result>>

\* The variables the oracle has seen: 0 up to the largest one in a clause.
cnf_n_vars(cnf) ==
    LET vs == UNION {{l.var : l \in cnf[i]} : i \in 1 .. Len(cnf)}
    IN  IF vs = {} THEN 0 ELSE (CHOOSE v \in vs : \A w \in vs : w <= v) + 1

\* solver.solve() entered: the oracle is searching.
SatSolve ==
    /\ pc = "sat_solve"
    /\ oracle' = [oracle EXCEPT !.state = "Running", !.calls = Append(@, "solve")]
    /\ pc' = "sat_solving"
    /\ UNCHANGED <<app, puzzle, round, kind, sudoku, fault, sol, grid, stack, ret, result>>

\* solver.solve().unwrap() returns: Sat with some satisfying assignment, or Unsat.
SatVerdict ==
    /\ pc = "sat_solving"
    /\ LET ms == oracle_models(oracle.cnf, cnf_n_vars(oracle.cnf))
       IN  IF ms = {}
           THEN oracle' = [oracle EXCEPT !.state = "Unsat"]
           ELSE \E m \in ms : oracle' = [oracle EXCEPT !.state = "Sat", !.model = m]
    /\ pc' = "sat_match"
    /\ UNCHANGED <<app, puzzle, round, kind, sudoku, fault, sol, grid, stack, ret, result>>

\* A match that reads full_solution whatever the verdict.
SatFullSolution_any ==
    /\ pc = "sat_match"
    /\ oracle' = [oracle EXCEPT !.calls = Append(@, "full_solution")]
    /\ sol' = assignment_of(oracle.model, cnf_n_vars(oracle.cnf))
    /\ pc' = "sat_extract"
    /\ UNCHANGED <<app, puzzle, round, kind, sudoku, fault, grid, stack, ret, result>>

\* Sat => { let sol = solver.full_solution().unwrap();
SatFullSolution ==
    /\ pc = "sat_match"
    /\ oracle.state = "Sat"
    /\ oracle' = [oracle EXCEPT !.calls = Append(@, "full_solution")]
    /\ sol' = assignment_of(oracle.model, cnf_n_vars(oracle.cnf))
    /\ pc' = "sat_extract"
    /\ UNCHANGED <<app, puzzle, round, kind, sudoku, fault, grid, stack, ret, result>>

\* Some(extract_grid(&model, &sol)) }
SatExtract ==
    /\ pc = "sat_extract"
    /\ result' = Some(extract_grid(sudoku, sol))
    /\ pc' = "done"
    /\ UNCHANGED <<app, puzzle, round, kind, sudoku, oracle, fault, sol, grid, stack, ret>>

\* _ => None,
SatNone ==
    /\ pc = "sat_match"
    /\ oracle.state # "Sat"
    /\ result' = None
    /\ pc' = "done"
    /\ UNCHANGED <<app, puzzle, round, kind, sudoku, oracle, fault, sol, grid, stack, ret>>

(***************************************************************************)
(* Oracle failures.  Every call on the oracle is followed by .unwrap(),    *)
(* so an Err from add_cnf, solve or full_solution panics; the              *)
(* Interrupted verdict falls into the `_ => None` arm.                     *)
(***************************************************************************)
OracleAddCnfErr ==
    /\ pc = "sat_add_cnf"
    /\ oracle' = [oracle EXCEPT !.calls = Append(@, "add_cnf")]
    /\ fault' = "add_cnf"
    /\ pc' = "panicked"
    /\ UNCHANGED <<app, puzzle, round, kind, sudoku, sol, grid, stack, ret, result>>

OracleSolveErr ==
    /\ pc = "sat_solving"
    /\ fault' = "solve"
    /\ pc' = "panicked"
    /\ UNCHANGED <<app, puzzle, round, kind, sudoku, oracle, sol, grid, stack, ret, result>>

OracleInterrupted ==
    /\ pc = "sat_solving"
    /\ fault' = "interrupted"
    /\ oracle' = [oracle EXCEPT !.state = "Interrupted"]
    /\ pc' = "sat_match"
    /\ UNCHANGED <<app, puzzle, round, kind, sudoku, sol, grid, stack, ret, result>>

OracleFullSolutionErr ==
    /\ pc = "sat_match"
    /\ oracle.state = "Sat"
    /\ oracle' = [oracle EXCEPT !.calls = Append(@, "full_solution")]
    /\ fault' = "full_solution"
    /\ pc' = "panicked"
    /\ UNCHANGED <<app, puzzle, round, kind, sudoku, sol, grid, stack, ret, result>>

(***************************************************************************)
(* BacktrackingSudokuSolver::solve and the recursion of solve_grid, one    *)
(* frame <<row, col, k>> per active call that found an empty cell, k the   *)
(* iteration of its `for d` loop.                                          *)
(***************************************************************************)
Top == stack[Len(stack)]
Pop == SubSeq(stack, 1, Len(stack) - 1)

\* let mut grid = *puzzle;
BtCopy ==
    /\ pc = "bt_copy"
    /\ grid' = puzzle
    /\ pc' = "bt_call"
    /\ UNCHANGED <<app, puzzle, round, kind, sudoku, oracle, fault, sol, stack, ret, result>>

\* solve_grid entered: if let Some((row, col)) = find_empty(grid) ... else true
BtCall ==
    /\ pc = "bt_call"
    /\ LET e == find_empty(grid)
       IN  IF e[1]
           THEN /\ stack' = Append(stack, <<e[2], e[3], 1>>)
                /\ pc' = "bt_loop"
                /\ ret' = ret
           ELSE /\ ret' = TRUE
                /\ pc' = "bt_ret"
                /\ stack' = stack
    /\ UNCHANGED <<app, puzzle, round, kind, sudoku, oracle, fault, sol, grid, result>>

\* for d in 1..=9 { if is_valid(grid, row, col, d) { grid[row][col] = d; solve_grid(grid) ..
\* and, the digits exhausted, `false`.
BtLoop ==
    /\ pc = "bt_loop"
    /\ LET row == Top[1]
           col == Top[2]
           k == Top[3]
           d == candidate(k)
       IN  IF k > N
           THEN /\ stack' = Pop
                /\ ret' = FALSE
                /\ pc' = "bt_ret"
                /\ grid' = grid
           ELSE IF is_valid(grid, row, col, d)
           THEN /\ grid' = [grid EXCEPT ![row][col] = d]
                /\ pc' = "bt_call"
                /\ UNCHANGED <<stack, ret>>
           ELSE /\ stack' = Append(Pop, <<row, col, k + 1>>)
                /\ UNCHANGED <<grid, ret, pc>>
    /\ UNCHANGED <<app, puzzle, round, kind, sudoku, oracle, fault, sol, result>>

\* back in the calling frame: if solve_grid(grid) { return true; } grid[row][col] = 0;
BtReturn ==
    /\ pc = "bt_ret"
    /\ stack # <<>>
    /\ IF ret
       THEN /\ stack' = Pop
            /\ UNCHANGED <<grid, ret, pc>>
       ELSE /\ grid' = [grid EXCEPT ![Top[1]][Top[2]] = 0]
            /\ stack' = Append(Pop, <<Top[1], Top[2], Top[3] + 1>>)
            /\ pc' = "bt_loop"
            /\ ret' = ret
    /\ UNCHANGED <<app, puzzle, round, kind, sudoku, oracle, fault, sol, result>>

\* if solve_grid(&mut grid) { Some(grid) } else { None }
BtDone ==
    /\ pc = "bt_ret"
    /\ stack = <<>>
    /\ result' = IF ret THEN Some(grid) ELSE None
    /\ pc' = "done"
    /\ UNCHANGED <<app, puzzle, round, kind, sudoku, oracle, fault, sol, grid, stack, ret>>

(***************************************************************************)
(* The caller stores a solution back: Some(sol) => { app.grid = sol; .. }  *)
(* and is ready for the next solve.                                        *)
(***************************************************************************)
Accept ==
    /\ pc = "done"
    /\ result.some
    /\ round < MaxRounds
    /\ app' = [app EXCEPT !.last_solve_time = "Some", !.message = "Solved"]
    /\ puzzle' = result.grid
    /\ round' = round + 1
    /\ kind' = "None"
    /\ pc' = "idle"
    /\ sudoku' = NoSudoku
    /\ oracle' = NoOracle
    /\ fault' = "none"
    /\ sol' = NoSol
    /\ grid' = ZeroGrid
    /\ stack' = <<>>
    /\ ret' = FALSE
    /\ result' = None

Kinds == {"Sat", "Backtracking"}

SatNext ==
    \/ SatNew
    \/ SatConstraints
    \/ SatClues
    \/ SatCadical
    \/ SatAddCnf
    \/ SatSolve
    \/ SatVerdict
    \/ SatFullSolution
    \/ SatExtract
    \/ SatNone

BtNext ==
    \/ BtCopy
    \/ BtCall
    \/ BtLoop
    \/ BtReturn
    \/ BtDone

Next ==
    \/ \E k \in Kinds : Solve(k)
    \/ SatNext
    \/ BtNext
    \/ Accept

Spec == Init /\ [][Next]_vars

\* The same program with an oracle that may fail.
FaultNext ==
    \/ OracleAddCnfErr
    \/ OracleSolveErr
    \/ OracleInterrupted
    \/ OracleFullSolutionErr

NextFault == Next \/ FaultNext

SpecFault == Init /\ [][NextFault]_vars

\* The encoder alone, on sparse puzzles (the empty puzzle among them).
InitEncode ==
    \E p \in SparsePuzzles :
        /\ app = [App_default EXCEPT !.show_help = FALSE]
        /\ puzzle = p
        /\ round = 0
        /\ kind = "Sat"
        /\ pc = "sat_new"
        /\ sudoku = NoSudoku
        /\ oracle = NoOracle
        /\ fault = "none"
        /\ sol = NoSol
        /\ grid = ZeroGrid
        /\ stack = <<>>
        /\ ret = FALSE
        /\ result = None

NextEncode ==
    \/ SatNew
    \/ SatConstraints
    \/ SatClues

SpecEncode == InitEncode /\ [][NextEncode]_vars

(***************************************************************************)
(* The decoder alone.  extract_grid takes any Assignment: here the one of  *)
(* SolvedDefault with the variables of the last DecodeFree digits of cell  *)
(* (0, 0) set freely, so that the cell has no, one or several true digit   *)
(* literals.                                                               *)
(***************************************************************************)
DecodeFree == 7

\* The variables that are true when the assignment spells the grid g.
grid_trues(literals, g) ==
    {lit_at(literals, a[1], a[2], g[a[1]][a[2]]).var : a \in {x \in Cells : g[x[1]][x[2]] # 0}}

\* The variables of the last k digit literals of cell (row, col).
free_vars(literals, row, col, k) ==
    {lit_at(literals, row, col, d).var : d \in (N - k + 1) .. N}

DecodeAssignments ==
    LET lits == SudokuSat_new.literals
        free == free_vars(lits, 0, 0, DecodeFree)
        base == grid_trues(lits, SolvedDefault) \ free
    IN  {base \cup S : S \in SUBSET free}

InitDecode ==
    \E trues \in DecodeAssignments :
        /\ app = [App_default EXCEPT !.show_help = FALSE]
        /\ puzzle = SolvedDefault
        /\ round = 0
        /\ kind = "Sat"
        /\ pc = "sat_extract"
        /\ sudoku = SudokuSat_new
        /\ oracle = [state |-> "Sat", cnf |-> <<>>, model |-> trues,
                     calls |-> <<"default", "add_cnf", "solve", "full_solution">>]
        /\ fault = "none"
        /\ sol = assignment_of(trues, SudokuSat_new.instance.n_vars)
        /\ grid = ZeroGrid
        /\ stack = <<>>
        /\ ret = FALSE
        /\ result = None

NextDecode == SatExtract

SpecDecode == InitDecode /\ [][NextDecode]_vars

(***************************************************************************)
(* The solver factory (solver/mod.rs) and the UI's choice of a tag         *)
(* (tui/mod.rs).  SolverKind has the one variant that is not commented     *)
(* out; current_solver_kind names a tag Backtracking for index 1.          *)
(***************************************************************************)
SolverKind == {"Sat"}

\* make_solver: `match kind { SolverKind::Sat => Solver::Sat(..) }`, its only arm.
make_solver(k) == CASE k = "Sat" -> "Sat"

solver_titles == <<"SAT", "Backtracking", "ExactCover">>

current_solver_kind(idx) ==
    CASE idx = 0 -> "Sat"
      [] idx = 1 -> "Backtracking"
      [] OTHER -> "Sat"

default_puzzle ==
    GridOf(<< <<0, 3, 6, 0, 0, 0, 9, 0, 0>>,
              <<1, 0, 0, 5, 3, 0, 2, 0, 0>>,
              <<0, 0, 4, 0, 0, 0, 0, 0, 6>>,
              <<0, 4, 7, 0, 0, 0, 0, 5, 3>>,
              <<0, 0, 0, 0, 0, 8, 0, 6, 9>>,
              <<6, 9, 0, 0, 4, 0, 0, 0, 0>>,
              <<0, 0, 0, 8, 0, 7, 0, 0, 1>>,
              <<0, 0, 2, 0, 0, 0, 0, 0, 4>>,
              <<0, 8, 5, 0, 0, 0, 0, 2, 0>> >>)

(***************************************************************************)
(* Key events.  A KeyCode is written as its name, Char(ch) as ch; "F1" is  *)
(* a key no arm names.  The digit keys typed are those of DigitKeys.       *)
(***************************************************************************)
DigitKeys == {"0", "1", "2", "5", "9"}

Keys ==
    {"Esc", "?", "h", "q", "d", "Tab", "s", "c", "Up", "Down", "Left", "Right",
     "Backspace", "Delete", "Enter", "F1"} \cup DigitKeys

\* ch.is_ascii_digit()
is_ascii_digit(ch) == ch \in {"0", "1", "2", "3", "4", "5", "6", "7", "8", "9"}

\* (ch as u8 - b'0') as usize
digit_of(ch) ==
    CASE ch = "0" -> 0 [] ch = "1" -> 1 [] ch = "2" -> 2 [] ch = "3" -> 3 [] ch = "4" -> 4
      [] ch = "5" -> 5 [] ch = "6" -> 6 [] ch = "7" -> 7 [] ch = "8" -> 8 [] ch = "9" -> 9

Min(a, b) == IF a < b THEN a ELSE b

handle_solver_keys(a, key) ==
    CASE key = "Left" -> IF a.solver_idx > 0 THEN [a EXCEPT !.solver_idx = @ - 1] ELSE a
      [] key = "Right" ->
            IF a.solver_idx + 1 < Len(solver_titles) THEN [a EXCEPT !.solver_idx = @ + 1] ELSE a
      [] key = "0" -> [a EXCEPT !.solver_idx = 0]
      [] key = "1" -> [a EXCEPT !.solver_idx = Min(1, Len(solver_titles) - 1)]
      [] key = "2" -> [a EXCEPT !.solver_idx = Min(2, Len(solver_titles) - 1)]
      [] key = "Enter" -> [a EXCEPT !.focus = "Grid"]
      [] OTHER -> a

\* KeyCode::Down with its guard left out.
cursor_down_free(r) == r + 1

\* KeyCode::Down => { if r < 8 { r += 1; } }
cursor_down(r) == IF r < 8 THEN r + 1 ELSE r

\* KeyCode::Up => { if r > 0 { r -= 1; } }
cursor_up(r) == IF r > 0 THEN r - 1 ELSE r

\* KeyCode::Left => { if c > 0 { c -= 1; } }
cursor_left(c) == IF c > 0 THEN c - 1 ELSE c

\* KeyCode::Right => { if c < 8 { c += 1; } }
cursor_right(c) == IF c < 8 THEN c + 1 ELSE c

\* handle_grid_keys: the App and the grid it leaves.
handle_grid_keys(a, g, key) ==
    LET r == a.cursor[1]
        c == a.cursor[2]
        r2 == CASE key = "Up" -> cursor_up(r) [] key = "Down" -> cursor_down(r) [] OTHER -> r
        c2 == CASE key = "Left" -> cursor_left(c) [] key = "Right" -> cursor_right(c) [] OTHER -> c
        g2 == CASE is_ascii_digit(key) -> [g EXCEPT ![r][c] = digit_of(key)]
                [] key \in {"Backspace", "Delete"} -> [g EXCEPT ![r][c] = 0]
                [] OTHER -> g
    IN  [app |-> [a EXCEPT !.cursor = <<r2, c2>>], grid |-> g2]

(***************************************************************************)
(* What solver.solve(&app.grid) hands back to handle_key.  The oracle is   *)
(* an input here: its verdict is any, and on Sat its assignment is one of  *)
(* UiAssignments, decoded by extract_grid as in SatSudokuSolver::solve.    *)
(***************************************************************************)
UiAssignments ==
    {grid_trues(SudokuSat_new.literals, g) :
        g \in {SolvedDefault, WithEdits(SolvedDefault, <<6, 8, 8, 6>>, 4)}}

SatOutcomes ==
    {None} \cup
    {Some(extract_grid(SudokuSat_new, assignment_of(t, SudokuSat_new.instance.n_vars))) :
        t \in UiAssignments}

\* impl SudokuSolver for Solver: `match self { Solver::Sat(s) => s.solve(puzzle) }`
Solver_solve(solver) == CASE solver = "Sat" -> SatOutcomes

(***************************************************************************)
(* handle_key, one action per arm.  The event loop of run_app is at        *)
(* pc = "idle"; `return Ok(true)` ends it.  MaxKeys bounds the events.     *)
(***************************************************************************)
MaxKeys == 2

AtLoop == pc = "idle" /\ round < MaxKeys

SolveLocals == <<sudoku, oracle, fault, sol, grid, stack, ret>>

\* if app.show_help { match key.code { .. } return Ok(false); }
HelpKey(key) ==
    /\ AtLoop
    /\ app.show_help
    /\ round' = round + 1
    /\ IF key \in {"Esc", "?", "h"}
       THEN app' = [app EXCEPT !.show_help = FALSE] /\ pc' = pc
       ELSE IF key = "q"
       THEN app' = app /\ pc' = "exited"
       ELSE app' = app /\ pc' = pc
    /\ UNCHANGED <<puzzle, kind, result>>
    /\ UNCHANGED SolveLocals

\* KeyCode::Char('q') => return Ok(true),
KeyQuit ==
    /\ AtLoop
    /\ ~app.show_help
    /\ round' = round + 1
    /\ pc' = "exited"
    /\ UNCHANGED <<app, puzzle, kind, result>>
    /\ UNCHANGED SolveLocals

\* KeyCode::Char('?') | KeyCode::Char('h') => { app.show_help = true; }
KeyHelp ==
    /\ AtLoop
    /\ ~app.show_help
    /\ round' = round + 1
    /\ app' = [app EXCEPT !.show_help = TRUE]
    /\ UNCHANGED <<puzzle, kind, pc, result>>
    /\ UNCHANGED SolveLocals

\* KeyCode::Char('d')
KeyDefault ==
    /\ AtLoop
    /\ ~app.show_help
    /\ round' = round + 1
    /\ puzzle' = default_puzzle
    /\ app' = [app EXCEPT !.message = "Loaded default puzzle", !.cursor = <<0, 0>>]
    /\ UNCHANGED <<kind, pc, result>>
    /\ UNCHANGED SolveLocals

\* KeyCode::Tab
KeyTab ==
    /\ AtLoop
    /\ ~app.show_help
    /\ round' = round + 1
    /\ app' = [app EXCEPT !.focus = IF @ = "Grid" THEN "Solver" ELSE "Grid"]
    /\ UNCHANGED <<puzzle, kind, pc, result>>
    /\ UNCHANGED SolveLocals

\* KeyCode::Char('s'): the tag of the chosen tab, the factory, solve, the result stored.
\* A tag that is no variant of SolverKind has no arm in make_solver: no solver is made.
KeySolve ==
    /\ AtLoop
    /\ ~app.show_help
    /\ round' = round + 1
    /\ LET tag == current_solver_kind(app.solver_idx)
       IN  IF tag \notin SolverKind
           THEN /\ pc' = "no_variant"
                /\ UNCHANGED <<app, puzzle, kind, result>>
           ELSE \E o \in Solver_solve(make_solver(tag)) :
                    /\ kind' = make_solver(tag)
                    /\ result' = o
                    /\ puzzle' = IF o.some THEN o.grid ELSE puzzle
                    /\ app' = [app EXCEPT !.last_solve_time = "Some",
                                          !.message = IF o.some THEN "Solved" ELSE "No solution"]
                    /\ pc' = pc
    /\ UNCHANGED SolveLocals

\* KeyCode::Char('c')
KeyClear ==
    /\ AtLoop
    /\ ~app.show_help
    /\ round' = round + 1
    /\ puzzle' = ZeroGrid
    /\ app' = [app EXCEPT !.message = "Cleared grid", !.last_solve_time = "None"]
    /\ UNCHANGED <<kind, pc, result>>
    /\ UNCHANGED SolveLocals

\* _ => match app.focus { Focus::Grid => handle_grid_keys, Focus::Solver => handle_solver_keys }
KeyFocus(key) ==
    /\ AtLoop
    /\ ~app.show_help
    /\ key \notin {"q", "?", "h", "d", "Tab", "s", "c"}
    /\ round' = round + 1
    /\ IF app.focus = "Grid"
       THEN LET h == handle_grid_keys(app, puzzle, key)
            IN  app' = h.app /\ puzzle' = h.grid
       ELSE app' = handle_solver_keys(app, key) /\ puzzle' = puzzle
    /\ UNCHANGED <<kind, pc, result>>
    /\ UNCHANGED SolveLocals

handle_key(key) ==
    \/ HelpKey(key)
    \/ (key = "q" /\ KeyQuit)
    \/ (key \in {"?", "h"} /\ KeyHelp)
    \/ (key = "d" /\ KeyDefault)
    \/ (key = "Tab" /\ KeyTab)
    \/ (key = "s" /\ KeySolve)
    \/ (key = "c" /\ KeyClear)
    \/ KeyFocus(key)

(***************************************************************************)
(* The UI alone.  It starts in App::default, or where keys take it from    *)
(* there with the grid and the message untouched: the cursor on a line of  *)
(* UiLines (arrow keys), any tab (Tab, Right, Tab), either focus, the      *)
(* help overlay open or closed.                                            *)
(***************************************************************************)
UiLines == {0, 4, 8}

InitUi ==
    /\ \E r \in UiLines, c \in UiLines, i \in 0 .. (Len(solver_titles) - 1),
          f \in {"Grid", "Solver"}, h \in BOOLEAN :
          app = [App_default EXCEPT !.cursor = <<r, c>>, !.solver_idx = i,
                                    !.focus = f, !.show_help = h]
    /\ puzzle = ZeroGrid
    /\ round = 0
    /\ kind = "None"
    /\ pc = "idle"
    /\ sudoku = NoSudoku
    /\ oracle = NoOracle
    /\ fault = "none"
    /\ sol = NoSol
    /\ grid = ZeroGrid
    /\ stack = <<>>
    /\ ret = FALSE
    /\ result = None

NextUi == \E key \in Keys : handle_key(key)

SpecUi == InitUi /\ [][NextUi]_vars

(***************************************************************************)
(* Vocabulary of the properties (the data model's words for grids).        *)
(***************************************************************************)
SameUnit(a, b) ==
    \/ a[1] = b[1]
    \/ a[2] = b[2]
    \/ (a[1] \div B = b[1] \div B /\ a[2] \div B = b[2] \div B)

Peers(a) == {b \in Cells : b # a /\ SameUnit(a, b)}

\* No two cells of one row, column or box hold the same nonzero digit.
Consistent(g) ==
    \A a \in Cells : g[a[1]][a[2]] # 0 =>
        \A b \in Peers(a) : g[b[1]][b[2]] # g[a[1]][a[2]]

NoZero(g) == \A a \in Cells : g[a[1]][a[2]] # 0

Complete(g) == NoZero(g) /\ Consistent(g)

\* g keeps every clue of p.
KeepsClues(p, g) == \A a \in Cells : p[a[1]][a[2]] # 0 => g[a[1]][a[2]] = p[a[1]][a[2]]

Blanks(p) == {a \in Cells : p[a[1]][a[2]] = 0}

\* The digits no clue of p rules out at a: a completion can hold nothing else there.
Candidates(p, a) == Digits \ {p[b[1]][b[2]] : b \in Peers(a)}

RECURSIVE Fills(_, _, _)
Fills(p, g, bs) ==
    IF bs = {} THEN {g}
    ELSE LET a == CHOOSE x \in bs : TRUE
         IN  UNION {Fills(p, [g EXCEPT ![a[1]][a[2]] = d], bs \ {a}) : d \in Candidates(p, a)}

\* Every complete grid that keeps the clues of p.
Completions(p) == {g \in Fills(p, p, Blanks(p)) : Complete(g)}

\* a comes before b when the cells are read in row-major order.
LexLess(a, b) ==
    \E k \in 0 .. (N * N - 1) :
        /\ a[k \div N][k % N] < b[k \div N][k % N]
        /\ \A j \in 0 .. (k - 1) : a[j \div N][j % N] = b[j \div N][j % N]

\* The digits whose literal is true for a cell in a set of true variables.
TrueDigits(literals, trues, a) ==
    {d \in Digits : lit_at(literals, a[1], a[2], d).var \in trues}

\* The number of nonzero entries of p.
ClueCount(p) == Cardinality(Cells \ Blanks(p))

Triples == Idx \X Idx \X Digits

\* SudokuSat::new has returned and the solve is still running or just over.
MapBuilt == kind = "Sat" /\ pc \notin {"idle", "sat_new"}

SatDone == kind = "Sat" /\ pc = "done"
BtDoneState == kind = "Backtracking" /\ pc = "done"

(***************************************************************************)
(* C1: encoding soundness.  When the puzzle has a completion, the SAT      *)
(* strategy ends with a Sat verdict and returns Some(G), G complete and    *)
(* keeping every clue; and whatever satisfying assignment the oracle       *)
(* picks, each cell has exactly one true digit literal in it.              *)
(***************************************************************************)
C1_EncodingSound ==
    /\ (SatDone /\ Completions(puzzle) # {}) =>
          /\ oracle.state = "Sat"
          /\ result.some
          /\ Complete(result.grid)
          /\ KeepsClues(puzzle, result.grid)
    /\ (kind = "Sat" /\ oracle.state = "Sat") =>
          \A a \in Cells : Cardinality(TrueDigits(sudoku.literals, oracle.model, a)) = 1

C1_Witness ==
    /\ SatDone
    /\ Blanks(puzzle) # {}
    /\ Completions(puzzle) # {}
    /\ result.some
    /\ Complete(result.grid)

(***************************************************************************)
(* C2: encoding completeness.  When the puzzle has no completion, the      *)
(* oracle's verdict is Unsat and the SAT strategy returns None.            *)
(***************************************************************************)
C2_EncodingComplete ==
    /\ (kind = "Sat" /\ pc = "sat_match" /\ Completions(puzzle) = {}) => oracle.state = "Unsat"
    /\ (SatDone /\ Completions(puzzle) = {}) => (oracle.state = "Unsat" /\ result = None)

\* A puzzle whose clues do not clash and that still has no completion.
C2_Witness ==
    /\ SatDone
    /\ Consistent(puzzle)
    /\ Completions(puzzle) = {}
    /\ result = None

(***************************************************************************)
(* C3: a puzzle with two clashing clues makes solve return None, under     *)
(* either strategy.                                                        *)
(***************************************************************************)
C3_ClashGivesNone ==
    (pc = "done" /\ ~Consistent(puzzle)) => result = None

(***************************************************************************)
(* C4: strategy equivalence.  On a puzzle with exactly one completion      *)
(* each strategy returns Some of that completion, so the two strategies    *)
(* return the same grid.                                                   *)
(***************************************************************************)
C4_StrategiesAgree ==
    (pc = "done" /\ Cardinality(Completions(puzzle)) = 1) =>
        /\ result.some
        /\ \A g \in Completions(puzzle) : result.grid = g

C4_Witness ==
    /\ BtDoneState
    /\ Blanks(puzzle) # {}
    /\ Cardinality(Completions(puzzle)) = 1
    /\ result.some
    /\ result.grid \in Completions(puzzle)

(***************************************************************************)
(* C5: clue preservation.  A returned grid keeps every clue of the input;  *)
(* a step of the backtracking search changes only cells that are 0 in the  *)
(* input; and no step of either solver changes the input grid.             *)
(***************************************************************************)
C5_CluesPreserved ==
    [][/\ (pc' = "done" /\ result'.some) => KeepsClues(puzzle, result'.grid)
       /\ (pc \in {"bt_call", "bt_loop", "bt_ret"}) =>
             \A a \in Cells : grid'[a[1]][a[2]] # grid[a[1]][a[2]] => puzzle[a[1]][a[2]] = 0
       /\ (pc \notin {"idle", "done"}) => puzzle' = puzzle]_vars

\* A puzzle with blanks was solved: the returned grid differs from it, in blanks only.
C5_Witness ==
    /\ pc = "done"
    /\ Blanks(puzzle) # {}
    /\ result.some
    /\ KeepsClues(puzzle, result.grid)
    /\ result.grid # puzzle

(***************************************************************************)
(* C6: idempotence.  A complete consistent grid is returned unchanged by   *)
(* both strategies, also when it is itself the result of a solve.          *)
(***************************************************************************)
C6_Idempotent ==
    (pc = "done" /\ Complete(puzzle)) => result = Some(puzzle)

\* The grid solved is the stored result of an earlier solve.
C6_Witness ==
    /\ pc = "done"
    /\ round = 1
    /\ Complete(puzzle)
    /\ result = Some(puzzle)

(***************************************************************************)
(* C7: backtracking determinism.  On a consistent puzzle with a            *)
(* completion the backtracking strategy returns the completion that is     *)
(* smallest in row-major order; it returns None only when the puzzle has   *)
(* no completion.                                                          *)
(***************************************************************************)
C7_BacktrackingSmallest ==
    (BtDoneState /\ Consistent(puzzle)) =>
        /\ Completions(puzzle) # {} =>
              /\ result.some
              /\ result.grid \in Completions(puzzle)
              /\ \A g \in Completions(puzzle) : ~LexLess(g, result.grid)
        /\ ~result.some => Completions(puzzle) = {}

\* Two completions, and the one returned is not the grid the puzzle was cut from.
C7_Witness ==
    /\ BtDoneState
    /\ Consistent(puzzle)
    /\ Cardinality(Completions(puzzle)) > 1
    /\ result.some
    /\ result.grid # SolvedDefault
    /\ \E g \in Completions(puzzle) : LexLess(result.grid, g)

(***************************************************************************)
(* C8: clause count.  After the rule clauses the instance holds 81         *)
(* nine-literal clauses followed by 3 * 2916 two-literal clauses, 8829 in  *)
(* all; the clues then add one unit clause per nonzero entry and nothing   *)
(* for a 0 entry.                                                          *)
(***************************************************************************)
C8_ClauseCount ==
    /\ pc \in {"sat_clues", "sat_cadical"} =>
          LET cls == sudoku.instance.clauses
          IN  /\ Len(cls) >= 81 + 3 * 2916
              /\ \A i \in 1 .. 81 : Cardinality(cls[i]) = 9
              /\ \A i \in 82 .. (81 + 3 * 2916) : Cardinality(cls[i]) = 2
    /\ pc = "sat_clues" => Len(sudoku.instance.clauses) = 8829
    /\ pc = "sat_cadical" =>
          LET cls == sudoku.instance.clauses
          IN  /\ Len(cls) = 8829 + ClueCount(puzzle)
              /\ \A i \in 8830 .. Len(cls) : Cardinality(cls[i]) = 1

\* The empty puzzle, rules and clues encoded.
C8_Witness ==
    /\ pc = "sat_cadical"
    /\ puzzle = ZeroGrid
    /\ Len(sudoku.instance.clauses) = 8829

(***************************************************************************)
(* C9: literal map.  SudokuSat::new allocates 729 literals in the order    *)
(* row, col, digit, all on different variables, and no later step of the   *)
(* solve changes the map.                                                  *)
(***************************************************************************)
C9_LiteralMap ==
    /\ [](MapBuilt =>
            /\ sudoku.instance.n_vars = 729
            /\ \A t \in Triples :
                  lit_at(sudoku.literals, t[1], t[2], t[3])
                      = Lit((t[1] * N + t[2]) * N + (t[3] - 1), FALSE)
            /\ Cardinality({lit_at(sudoku.literals, t[1], t[2], t[3]).var : t \in Triples}) = 729)
    /\ [][(MapBuilt /\ pc # "done") => sudoku'.literals = sudoku.literals]_vars

\* The map has gone through encoding, clue adding and decoding.
C9_Witness ==
    /\ SatDone
    /\ result.some
    /\ Cardinality({lit_at(sudoku.literals, t[1], t[2], t[3]).var : t \in Triples}) = 729

(***************************************************************************)
(* C10: oracle failure.  When the oracle fails or is interrupted, solve    *)
(* returns None: it does not panic.                                        *)
(***************************************************************************)
C10_FailureGivesNone ==
    fault # "none" => (pc # "panicked" /\ (pc = "done" => result = None))


(***************************************************************************)
(* C11: decoder invariant violation.  extract_grid returns a grid only     *)
(* from an assignment in which every cell has exactly one true digit       *)
(* literal; given a cell with none or with several it reports the          *)
(* violation and returns no grid (no 0 cell, no first-of-several pick).    *)
(***************************************************************************)
C11_DecoderReportsViolation ==
    (kind = "Sat" /\ pc = "done" /\ result.some) =>
        \A a \in Cells :
            Cardinality({d \in Digits :
                sol[lit_at(sudoku.literals, a[1], a[2], d).var] = "True"}) = 1


(***************************************************************************)
(* C12: factory dispatch.  The tag of every tab has an implementation in   *)
(* the factory and solve runs it: with the Backtracking tab chosen         *)
(* (solver index 1), a key 's' runs the backtracking strategy.             *)
(***************************************************************************)
C12_FactoryDispatch ==
    [][KeySolve =>
          /\ pc' # "no_variant"
          /\ kind' = current_solver_kind(app.solver_idx)]_vars


(***************************************************************************)
(* C13: oracle session ordering within one SAT solve.  The session goes    *)
(* Fresh, CnfLoaded, Running, then one of Sat, Unsat, Interrupted, no      *)
(* step skipped or repeated; the CNF handed over holds every rule and      *)
(* clue clause; the calls made are default, add_cnf, solve, each once,     *)
(* then full_solution once and only after a Sat verdict.                   *)
(***************************************************************************)
SessionCalls == <<"default", "add_cnf", "solve", "full_solution">>

SessionSteps ==
    {<<"None", "Fresh">>, <<"Fresh", "CnfLoaded">>, <<"CnfLoaded", "Running">>,
     <<"Running", "Sat">>, <<"Running", "Unsat">>, <<"Running", "Interrupted">>,
     <<"Sat", "None">>}

C13_SessionOrder ==
    /\ [](/\ Len(oracle.calls) <= Len(SessionCalls)
          /\ oracle.calls = SubSeq(SessionCalls, 1, Len(oracle.calls))
          /\ (Len(oracle.calls) = 4) => oracle.state = "Sat"
          /\ (oracle.state \in {"CnfLoaded", "Running", "Sat", "Unsat", "Interrupted"}) =>
                /\ oracle.cnf = sudoku.instance.clauses
                /\ Len(oracle.cnf) = 8829 + ClueCount(puzzle)
          /\ (oracle.state \in {"Sat", "Unsat", "Interrupted"}) => Len(oracle.calls) >= 3
          /\ SatDone =>
                /\ oracle.state \in {"Sat", "Unsat", "Interrupted"}
                /\ Len(oracle.calls) = IF oracle.state = "Sat" THEN 4 ELSE 3)
    /\ [][oracle'.state # oracle.state => <<oracle.state, oracle'.state>> \in SessionSteps]_vars

\* One whole session: a Sat verdict, and full_solution read after it.
C13_Witness ==
    /\ SatDone
    /\ oracle.state = "Sat"
    /\ oracle.calls = SessionCalls
    /\ result.some


(***************************************************************************)
(* C14: UI state invariant.  Whatever keys handle_key is given, the        *)
(* cursor stays within (0..8, 0..8), solver_idx within 0..2 and every      *)
(* grid entry within 0..9, so every grid lent to solve is well formed;     *)
(* and while the help overlay is shown no key changes the grid, the        *)
(* cursor, the focus or solver_idx.                                        *)
(***************************************************************************)
C14_UiInvariant ==
    /\ [](/\ app.cursor[1] \in 0 .. 8
          /\ app.cursor[2] \in 0 .. 8
          /\ app.solver_idx \in 0 .. 2
          /\ \A a \in Cells : puzzle[a[1]][a[2]] \in 0 .. 9)
    /\ [][app.show_help =>
             /\ puzzle' = puzzle
             /\ app'.cursor = app.cursor
             /\ app'.focus = app.focus
             /\ app'.solver_idx = app.solver_idx]_vars

\* In the bottom right corner, Down has left the cursor there and 9 was typed.
C14_Witness ==
    /\ round = MaxKeys
    /\ ~app.show_help
    /\ app.cursor = <<8, 8>>
    /\ puzzle[8][8] = 9

====
